---- MODULE Spec2Model ----
(***************************************************************************)
(* Model of value_iteration(S, A, P, R, gamma, tol, iter_max) from         *)
(* src/value_iteration/value_iteration.py.                                 *)
(*                                                                         *)
(* The routine computes with Python numbers.  The numbers are modelled as  *)
(* IEEE-754 binary64 values: a value is sign * m * 2^e with m a natural    *)
(* number of at most 53 bits, and every arithmetic result is rounded to    *)
(* nearest, ties to even.  Naturals wider than a machine integer are kept  *)
(* as little-endian sequences of 15-bit limbs.  Exponents stay far from    *)
(* the overflow and subnormal ranges for every input of the model, so      *)
(* these are not modelled; a Python int and the float of the same value    *)
(* behave alike in every operation the routine performs.                   *)
(***************************************************************************)
EXTENDS Integers, Sequences, FiniteSets, TLC

(***************************************************************************)
(* Naturals of arbitrary size.  The operations are functions, so that an   *)
(* operand is evaluated once, before the operation is applied to it.       *)
(***************************************************************************)
LimbBits == 15

Base == 2^LimbBits

Big == Seq(Nat)

Limb[a \in Big, i \in Nat] == IF i <= Len(a) THEN a[i] ELSE 0

BTrim[a \in Big] ==
    IF a = <<>> THEN <<>>
    ELSE IF a[Len(a)] = 0 THEN BTrim[SubSeq(a, 1, Len(a) - 1)]
    ELSE a

BAddC[a \in Big, b \in Big, i \in Nat, c \in Nat] ==
    IF i > Len(a) /\ i > Len(b)
    THEN (IF c = 0 THEN <<>> ELSE <<c>>)
    ELSE LET t == Limb[a, i] + Limb[b, i] + c
         IN  <<t % Base>> \o BAddC[a, b, i + 1, t \div Base]

BAdd[a \in Big, b \in Big] == BAddC[a, b, 1, 0]

BSubC[a \in Big, b \in Big, i \in Nat, br \in Nat] ==
    IF i > Len(a) THEN <<>>
    ELSE LET t == Limb[a, i] - Limb[b, i] - br
         IN  IF t < 0 THEN <<t + Base>> \o BSubC[a, b, i + 1, 1]
             ELSE <<t>> \o BSubC[a, b, i + 1, 0]

\* a - b for a >= b
BSub[a \in Big, b \in Big] == BTrim[BSubC[a, b, 1, 0]]

BCmpAt[a \in Big, b \in Big, i \in Nat] ==
    IF i = 0 THEN 0
    ELSE IF a[i] > b[i] THEN 1
    ELSE IF a[i] < b[i] THEN -1
    ELSE BCmpAt[a, b, i - 1]

\* -1, 0, 1 as a < b, a = b, a > b (both without leading zero limbs)
BCmp[a \in Big, b \in Big] ==
    IF Len(a) > Len(b) THEN 1
    ELSE IF Len(a) < Len(b) THEN -1
    ELSE BCmpAt[a, b, Len(a)]

BMulSmallC[a \in Big, d \in Nat, i \in Nat, c \in Nat] ==
    IF i > Len(a) THEN (IF c = 0 THEN <<>> ELSE <<c>>)
    ELSE LET t == a[i] * d + c
         IN  <<t % Base>> \o BMulSmallC[a, d, i + 1, t \div Base]

\* a * d for a limb d
BMulSmall[a \in Big, d \in Nat] == IF d = 0 THEN <<>> ELSE BMulSmallC[a, d, 1, 0]

BMulAt[a \in Big, b \in Big, j \in Nat] ==
    IF j > Len(b) THEN <<>>
    ELSE BAdd[BMulSmall[a, b[j]], <<0>> \o BMulAt[a, b, j + 1]]

BMul[a \in Big, b \in Big] == BTrim[BMulAt[a, b, 1]]

Zeros[n \in Nat] == [k \in 1..n |-> 0]

\* a * 2^k
BShl[a \in Big, k \in Nat] ==
    IF a = <<>> THEN <<>>
    ELSE Zeros[k \div LimbBits] \o BMulSmall[a, 2^(k % LimbBits)]

BDivSmallAt[a \in Big, d \in Nat, i \in Nat, r \in Nat] ==
    IF i = 0 THEN <<>>
    ELSE LET t == r * Base + a[i]
         IN  BDivSmallAt[a, d, i - 1, t % d] \o <<t \div d>>

\* floor(a / 2^k)
BShr[a \in Big, k \in Nat] ==
    LET q == k \div LimbBits
        hi == IF q >= Len(a) THEN <<>> ELSE SubSeq(a, q + 1, Len(a))
    IN  BTrim[BDivSmallAt[hi, 2^(k % LimbBits), Len(hi), 0]]

LimbLen[x \in Nat] == IF x = 0 THEN 0 ELSE 1 + LimbLen[x \div 2]

\* number of bits of a
BBits[a \in Big] ==
    IF a = <<>> THEN 0
    ELSE (Len(a) - 1) * LimbBits + LimbLen[a[Len(a)]]

LimbTz[x \in Nat] == IF x % 2 = 1 THEN 0 ELSE 1 + LimbTz[x \div 2]

BTzAt[a \in Big, i \in Nat] ==
    IF a[i] = 0 THEN LimbBits + BTzAt[a, i + 1] ELSE LimbTz[a[i]]

\* number of trailing zero bits of a > 0
BTz[a \in Big] == BTzAt[a, 1]

BOdd[a \in Big] == a # <<>> /\ a[1] % 2 = 1

(***************************************************************************)
(* binary64 values                                                         *)
(***************************************************************************)
Precision == 53

Float == [neg : BOOLEAN, m : Big, e : Int]

FZero == [neg |-> FALSE, m |-> <<>>, e |-> 0]

\* the value (-1)^neg * m * 2^e, written with m odd
Canon[neg \in BOOLEAN, m \in Big, e \in Int] ==
    IF m = <<>> THEN FZero
    ELSE [neg |-> neg, m |-> BShr[m, BTz[m]], e |-> e + BTz[m]]

\* the integer n (|n| < Base) as a value
FInt(n) ==
    IF n = 0 THEN FZero
    ELSE IF n < 0 THEN Canon[TRUE, <<-n>>, 0]
    ELSE Canon[FALSE, <<n>>, 0]

\* n * 2^e for a small natural n
FPow2(n, e) == Canon[FALSE, <<n>>, e]

\* round to nearest, ties to even, to Precision bits
Round[x \in Float] ==
    IF BBits[x.m] <= Precision THEN x
    ELSE LET k  == BBits[x.m] - Precision
             q  == BShr[x.m, k]
             c  == BCmp[BSub[x.m, BShl[q, k]], BShl[<<1>>, k - 1]]
             up == c = 1 \/ (c = 0 /\ BOdd[q])
         IN  Canon[x.neg, IF up THEN BAdd[q, <<1>>] ELSE q, x.e + k]

\* exact product
XMul[x \in Float, y \in Float] ==
    IF x.m = <<>> \/ y.m = <<>> THEN FZero
    ELSE Canon[x.neg # y.neg, BMul[x.m, y.m], x.e + y.e]

\* exact sum of magnitudes mx and my at exponent e, with the signs nx and ny
XAddAligned[nx \in BOOLEAN, mx \in Big, ny \in BOOLEAN, my \in Big, e \in Int] ==
    IF nx = ny THEN Canon[nx, BAdd[mx, my], e]
    ELSE IF BCmp[mx, my] = 0 THEN FZero
    ELSE IF BCmp[mx, my] = 1 THEN Canon[nx, BSub[mx, my], e]
    ELSE Canon[ny, BSub[my, mx], e]

\* exact sum
XAdd[x \in Float, y \in Float] ==
    IF x.m = <<>> THEN y
    ELSE IF y.m = <<>> THEN x
    ELSE LET e == IF x.e < y.e THEN x.e ELSE y.e
         IN  XAddAligned[x.neg, BShl[x.m, x.e - e], y.neg, BShl[y.m, y.e - e], e]

FNeg[x \in Float] == IF x.m = <<>> THEN x ELSE [x EXCEPT !.neg = ~x.neg]

XSub[x \in Float, y \in Float] == XAdd[x, FNeg[y]]

\* x < y
FLess[x \in Float, y \in Float] == XSub[x, y].neg

FLeq[x \in Float, y \in Float] == ~FLess[y, x]

\* Python x * y, x + y, x - y, abs(x) on floats
FMul[x \in Float, y \in Float] == Round[XMul[x, y]]

FAdd[x \in Float, y \in Float] == Round[XAdd[x, y]]

FSub[x \in Float, y \in Float] == Round[XSub[x, y]]

FAbs[x \in Float] == [x EXCEPT !.neg = FALSE]

\* Python max(x, y): y only when it is strictly greater
FMax[x \in Float, y \in Float] == IF FLess[x, y] THEN y ELSE x

(***************************************************************************)
(* The call value_iteration(S, A, P, R, gamma, tol, iter_max)              *)
(***************************************************************************)
VARIABLES
    S,                \* argument S, as the sequence in which the set iterates
    A,                \* argument A, as the sequence in which the set iterates
    P,                \* argument P: <<s_prime, s, a>> -> probability
    R,                \* argument R: <<s, a>> -> reward
    gamma,            \* argument gamma
    tol,              \* argument tol
    iter_max,         \* argument iter_max
    pc,               \* position of the call
    idx,              \* position of "for s in S" in S
    V,                \* local V
    new_V,            \* local new_V
    policy,           \* local policy
    delta,            \* local delta
    iteration_count,  \* local iteration_count
    warned,           \* number of RuntimeWarnings emitted
    calls,            \* number of calls of P and of R made so far
    sweeps,           \* number of completed passes of "for s in S" in the while loop
    writes            \* writes[s]: number of assignments to policy[s] in the extraction pass

args == <<S, A, P, R, gamma, tol, iter_max>>

vars == <<S, A, P, R, gamma, tol, iter_max, pc, idx, V, new_V, policy, delta,
          iteration_count, warned, calls, sweeps, writes>>

None == "None"

\* a local dict that is not created yet, a local number that is not assigned yet
NoDict == [s \in {} |-> None]

NoValue == [unbound |-> TRUE]

Range(q) == {q[k] : k \in 1..Len(q)}

\* sum(P(s_prime, s, a) * W[s_prime] for s_prime in S), over the first k states
RECURSIVE SumPV(_, _, _, _)
SumPV(W, s, a, k) ==
    IF k = 0 THEN FZero
    ELSE FAdd[SumPV(W, s, a, k - 1), FMul[P[<<S[k], s, a>>], W[S[k]]]]

\* QValue without the discount factor
QValueUndiscounted(W, s, a) == FAdd[R[<<s, a>>], SumPV(W, s, a, Len(S))]

\* R(s, a) + gamma * sum(P(s_prime, s, a) * W[s_prime] for s_prime in S)
QValue(W, s, a) == FAdd[R[<<s, a>>], FMul[gamma, SumPV(W, s, a, Len(S))]]

\* the list action_values built by "for a in A"
ActionValues(W, s) == [k \in 1..Len(A) |-> QValue(W, s, A[k])]

\* max(q) of a non-empty list: the first element no later one exceeds
RECURSIVE MaxOf(_, _)
MaxOf(q, k) == IF k = 1 THEN q[1] ELSE FMax[MaxOf(q, k - 1), q[k]]

\* BestValue taking the first action's value instead of the maximum
BestValueFirst(W, s) == ActionValues(W, s)[1]

BestValue(W, s) == MaxOf(ActionValues(W, s), Len(A))

\* ArgMax keeping the last of several maximal keys
RECURSIVE ArgMaxLast(_, _)
ArgMaxLast(keys, k) ==
    IF k = 1 THEN 1
    ELSE LET b == ArgMaxLast(keys, k - 1)
         IN  IF FLeq[keys[b], keys[k]] THEN k ELSE b

\* max(A, key=...): the index of the first action whose key no later one exceeds
RECURSIVE ArgMax(_, _)
ArgMax(keys, k) ==
    IF k = 1 THEN 1
    ELSE LET b == ArgMax(keys, k - 1)
         IN  IF FLess[keys[b], keys[k]] THEN k ELSE b

BestAction(W, s) == A[ArgMax(ActionValues(W, s), Len(A))]

\* GammaInRange accepting the end points
GammaInRangeClosed == FLeq[FZero, gamma] /\ FLeq[gamma, FInt(1)]

\* 0 < gamma < 1
GammaInRange == FLess[FZero, gamma] /\ FLess[gamma, FInt(1)]

\* calls of P and R made by one evaluation of every action's value at a state
CallsPerState == Len(A) * (1 + Len(S))

\* lines 25-30: validate gamma, create V and policy
Validate ==
    /\ pc = "start"
    /\ IF ~GammaInRange
       THEN /\ pc' = "raised"
            /\ UNCHANGED <<V, policy, iteration_count>>
       ELSE /\ pc' = "loop"
            /\ V' = [s \in Range(S) |-> FZero]
            /\ policy' = [s \in Range(S) |-> None]
            /\ iteration_count' = 1
    /\ UNCHANGED <<args, idx, new_V, delta, warned, calls, sweeps, writes>>

\* lines 32-34: top of the while loop
SweepBegin ==
    /\ pc = "loop"
    /\ delta' = FZero
    /\ new_V' = V
    /\ idx' = 1
    /\ pc' = "sweep"
    /\ UNCHANGED <<args, V, policy, iteration_count, warned, calls, sweeps, writes>>

\* SweepState reading the values already written in the same sweep
SweepStateInPlace ==
    /\ pc = "sweep"
    /\ idx <= Len(S)
    /\ LET s          == S[idx]
           best_value == BestValue(new_V, s)
       IN  /\ new_V' = [new_V EXCEPT ![s] = best_value]
           /\ delta' = FMax[delta, FAbs[FSub[V[s], best_value]]]
    /\ calls' = calls + CallsPerState
    /\ idx' = idx + 1
    /\ UNCHANGED <<args, pc, V, policy, iteration_count, warned, sweeps, writes>>

\* SweepState also recording the greedy action of the state in the policy
SweepStateWithPolicy ==
    /\ pc = "sweep"
    /\ idx <= Len(S)
    /\ LET s          == S[idx]
           best_value == BestValue(V, s)
       IN  /\ new_V' = [new_V EXCEPT ![s] = best_value]
           /\ delta' = FMax[delta, FAbs[FSub[V[s], best_value]]]
           /\ policy' = [policy EXCEPT ![s] = BestAction(V, s)]
    /\ calls' = calls + CallsPerState
    /\ idx' = idx + 1
    /\ UNCHANGED <<args, pc, V, iteration_count, warned, sweeps, writes>>

\* lines 36-44: body of "for s in S" for the state at position idx
SweepState ==
    /\ pc = "sweep"
    /\ idx <= Len(S)
    /\ LET s          == S[idx]
           best_value == BestValue(V, s)
       IN  /\ new_V' = [new_V EXCEPT ![s] = best_value]
           /\ delta' = FMax[delta, FAbs[FSub[V[s], best_value]]]
    /\ calls' = calls + CallsPerState
    /\ idx' = idx + 1
    /\ UNCHANGED <<args, pc, V, policy, iteration_count, warned, sweeps, writes>>

\* SweepEnd raising instead of warning when the budget is exhausted
SweepEndRaising ==
    /\ pc = "sweep"
    /\ idx > Len(S)
    /\ V' = new_V
    /\ iteration_count' = iteration_count + 1
    /\ sweeps' = sweeps + 1
    /\ IF FLess[delta, tol] \/ iteration_count' >= iter_max
       THEN /\ pc' = IF iteration_count' >= iter_max THEN "raised" ELSE "extract"
            /\ idx' = 1
            /\ UNCHANGED warned
       ELSE /\ pc' = "loop"
            /\ UNCHANGED <<warned, idx>>
    /\ UNCHANGED <<args, new_V, policy, delta, calls, writes>>

\* lines 46-52: end of a sweep, stopping test and warning
SweepEnd ==
    /\ pc = "sweep"
    /\ idx > Len(S)
    /\ V' = new_V
    /\ iteration_count' = iteration_count + 1
    /\ sweeps' = sweeps + 1
    /\ IF FLess[delta, tol] \/ iteration_count' >= iter_max
       THEN /\ warned' = IF iteration_count' >= iter_max THEN warned + 1 ELSE warned
            /\ pc' = "extract"
            /\ idx' = 1
       ELSE /\ pc' = "loop"
            /\ UNCHANGED <<warned, idx>>
    /\ UNCHANGED <<args, new_V, policy, delta, calls, writes>>

\* ExtractState also backing up the value of the state in V
ExtractStateBackup ==
    /\ pc = "extract"
    /\ idx <= Len(S)
    /\ LET s           == S[idx]
           best_action == BestAction(V, s)
       IN  /\ policy' = [policy EXCEPT ![s] = best_action]
           /\ V' = [V EXCEPT ![s] = BestValue(V, s)]
           /\ writes' = [writes EXCEPT ![s] = @ + 1]
    /\ calls' = calls + CallsPerState
    /\ idx' = idx + 1
    /\ UNCHANGED <<args, pc, new_V, delta, iteration_count, warned, sweeps>>

\* lines 55-57: body of the extraction loop for the state at position idx
ExtractState ==
    /\ pc = "extract"
    /\ idx <= Len(S)
    /\ LET s           == S[idx]
           best_action == BestAction(V, s)
       IN  /\ policy' = [policy EXCEPT ![s] = best_action]
           /\ writes' = [writes EXCEPT ![s] = @ + 1]
    /\ calls' = calls + CallsPerState
    /\ idx' = idx + 1
    /\ UNCHANGED <<args, pc, V, new_V, delta, iteration_count, warned, sweeps>>

\* line 59: return policy, V
Return ==
    /\ pc = "extract"
    /\ idx > Len(S)
    /\ pc' = "done"
    /\ UNCHANGED <<args, idx, V, new_V, policy, delta, iteration_count, warned,
                   calls, sweeps, writes>>

Next == Validate \/ SweepBegin \/ SweepState \/ SweepEnd \/ ExtractState \/ Return

(***************************************************************************)
(* The calls that are checked                                              *)
(***************************************************************************)
MaxIterMax == 4

IterMaxDefault == 1000

\* 0.9, 1e-6 and 1e-8 as binary64
Gamma09 == [neg |-> FALSE, m |-> <<19661, 6553, 13107, 230>>, e |-> -53]

Tol1e6 == [neg |-> FALSE, m |-> <<28045, 16747, 7134, 134>>, e |-> -72]

Tol1e8 == [neg |-> FALSE, m |-> <<17949, 25136, 29469, 85>>, e |-> -78]

Half == FPow2(1, -1)

Orders(X) ==
    {q \in [1..Cardinality(X) -> X] : \A j, k \in 1..Cardinality(X) : q[j] = q[k] => j = k}

\* every action keeps the state
PStay(St, Ac) == [t \in St \X St \X Ac |-> IF t[1] = t[2] THEN FInt(1) ELSE FZero]

\* a0 keeps the state, every other action moves to the other state
PMove(St, Ac) ==
    [t \in St \X St \X Ac |->
        IF (t[3] = "a0") = (t[1] = t[2]) THEN FInt(1) ELSE FZero]

\* every action reaches either state with probability 1/2
PHalf(St, Ac) == [t \in St \X St \X Ac |-> Half]

RewardVals == {FInt(-1), FZero, FInt(5)}

GammaVals == {FInt(-1), FZero, Half, Gamma09, FInt(1), FPow2(3, -1)}

TolVals == {Tol1e6, FInt(1)}

\* the toy MDP: reward 5 for a1 in s0, 0 elsewhere
RToy == [t \in {"s0", "s1"} \X {"a0", "a1"} |->
            IF t = <<"s0", "a1">> THEN FInt(5) ELSE FZero]

Entry ==
    /\ pc = "start"
    /\ idx = 0
    /\ V = NoDict
    /\ new_V = NoDict
    /\ policy = NoDict
    /\ delta = NoValue
    /\ iteration_count = 0
    /\ warned = 0
    /\ calls = 0
    /\ sweeps = 0
    /\ writes = [s \in Range(S) |-> 0]

\* two states, two actions, small iteration budgets
InitSmall ==
    /\ S \in Orders({"s0", "s1"})
    /\ A \in Orders({"a0", "a1"})
    /\ P \in {PStay(Range(S), Range(A)), PMove(Range(S), Range(A)), PHalf(Range(S), Range(A))}
    /\ R \in [Range(S) \X Range(A) -> RewardVals]
    /\ gamma \in GammaVals
    /\ tol \in TolVals
    /\ iter_max \in 1..MaxIterMax

\* the toy MDP with gamma = 0.9, tol = 1e-8, iter_max = 1000
InitToy ==
    /\ S \in Orders({"s0", "s1"})
    /\ A \in Orders({"a0", "a1"})
    /\ P = PStay(Range(S), Range(A))
    /\ R = RToy
    /\ gamma = Gamma09
    /\ tol = Tol1e8
    /\ iter_max = IterMaxDefault

\* the single-state MDP with gamma = 0.5 and the default tol
InitSingle ==
    /\ S = <<"s0">>
    /\ A = <<"a0">>
    /\ P = PStay(Range(S), Range(A))
    /\ R = [t \in Range(S) \X Range(A) |-> FInt(1)]
    /\ gamma = Half
    /\ tol = Tol1e6
    /\ iter_max \in {IterMaxDefault} \cup (1..MaxIterMax) \cup {22, 23}

Init == (InitSmall \/ InitToy \/ InitSingle) /\ Entry

Spec == Init /\ [][Next]_vars

\* the calls on which termination is checked: the arguments of InitSmall with
\* one iteration order of S, the rewards of the toy MDP or their negation
ArgsFair ==
    /\ S = <<"s0", "s1">>
    /\ A \in Orders({"a0", "a1"})
    /\ P \in {PStay(Range(S), Range(A)), PMove(Range(S), Range(A)), PHalf(Range(S), Range(A))}
    /\ R \in {RToy, [t \in DOMAIN RToy |-> FNeg[RToy[t]]]}
    /\ gamma \in {Half, Gamma09}
    /\ tol \in TolVals
    /\ iter_max \in 1..MaxIterMax

\* the call runs on: no step of it waits for anything
InitFair == ArgsFair /\ Entry

FairSpec == InitFair /\ [][Next]_vars /\ WF_vars(Next)

(***************************************************************************)
(* Properties                                                              *)
(***************************************************************************)
States == Range(S)

Actions == Range(A)

Finished == pc \in {"extract", "done"}

\* the last sweep ended with delta < tol
Converged == FLess[delta, tol]

\* 10^k, exactly
RECURSIVE Pow10(_)
Pow10(k) == IF k = 0 THEN FInt(1) ELSE XMul[FInt(10), Pow10(k - 1)]

\* |x - c| <= n / 10^k, in exact arithmetic
WithinDec(x, c, n, k) == FLeq[XMul[FAbs[XSub[x, c]], Pow10(k)], FInt(n)]

\* gamma is strictly between 0 and 1
GammaValid ==
    LET d == XSub[FInt(1), gamma]
    IN  ~gamma.neg /\ gamma.m # <<>> /\ ~d.neg /\ d.m # <<>>

\* C1: a gamma with gamma <= 0 or gamma >= 1 makes the call raise before any
\* computation: P and R are not called, V and policy are not created and no
\* warning is emitted; a gamma strictly inside (0, 1) never makes it raise.
C1_GammaDomain ==
    /\ pc # "start" => (pc = "raised" <=> ~GammaValid)
    /\ pc = "raised" =>
          /\ calls = 0
          /\ V = NoDict /\ new_V = NoDict /\ policy = NoDict
          /\ warned = 0 /\ sweeps = 0

C1_Witness == pc = "raised" /\ gamma = FInt(1) /\ calls = 0

\* C2: the warning is emitted exactly when the last sweep ended with
\* delta >= tol; a call whose last sweep has delta < tol emits no warning.
C2_WarnIffNotConverged == Finished => (warned > 0 <=> ~Converged)

\* C3: when no sweep has delta < tol, exactly iter_max sweeps are performed
\* before the policy is extracted.
C3_ExactlyIterMaxSweeps == (Finished /\ ~Converged) => sweeps = iter_max

Index(q, x) == CHOOSE k \in 1..Len(q) : q[k] = x

\* C4: the returned policy is greedy for the returned V: policy[s] is an action
\* whose value R(s,a) + gamma * sum P(s',s,a) V[s'] is at least that of every
\* action, and it is the first such action in the iteration order of A.
C4_GreedyFirst ==
    pc = "done" =>
        \A s \in States :
            /\ policy[s] \in Actions
            /\ \A a \in Actions : FLeq[QValue(V, s, a), QValue(V, s, policy[s])]
            /\ \A k \in 1..(Index(A, policy[s]) - 1) :
                   FLess[QValue(V, s, A[k]), QValue(V, s, policy[s])]

\* a returned policy with a state where both actions are maximal and one
\* where the second action in the order is the only maximal one
C4_Witness ==
    /\ pc = "done"
    /\ Len(A) = 2
    /\ \E s \in States : QValue(V, s, A[1]) = QValue(V, s, A[2]) /\ policy[s] = A[1]
    /\ \E s \in States : FLess[QValue(V, s, A[1]), QValue(V, s, A[2])] /\ policy[s] = A[2]

\* C5: with a valid gamma every call reaches the return of (policy, V), also
\* when the sweep budget ran out: V is the value function of the last sweep
\* and the policy gives every state an action of A.
C5_ReturnsResult ==
    (pc = "start" /\ GammaValid) ~>
        (/\ pc = "done"
         /\ V = new_V
         /\ sweeps >= 1
         /\ \A s \in States : policy[s] \in Actions)

\* a call that returned after running out of budget without converging
C5_Witness ==
    /\ pc = "done"
    /\ ~Converged /\ warned = 1
    /\ V = new_V
    /\ \A s \in States : policy[s] \in Actions

IsToy ==
    /\ States = {"s0", "s1"} /\ Actions = {"a0", "a1"}
    /\ P = PStay(States, Actions)
    /\ R = RToy
    /\ gamma = Gamma09 /\ tol = Tol1e8 /\ iter_max = IterMaxDefault

\* C6 as stated: on the toy MDP the call returns policy[s0] = a1 and a
\* values[s0] within 1e-8 of 50.
C6_ToyWithinTol ==
    (IsToy /\ pc = "done") =>
        /\ policy["s0"] = "a1"
        /\ WithinDec(V["s0"], FInt(50), 1, 8)

\* C6 amended: on the toy MDP the call returns policy[s0] = a1 and a
\* values[s0] within tol/(1-gamma) = 1e-7 of 50.
C6_ToyWithinBound ==
    (IsToy /\ pc = "done") =>
        /\ policy["s0"] = "a1"
        /\ WithinDec(V["s0"], FInt(50), 1, 7)

C6_Witness == IsToy /\ pc = "done" /\ Converged /\ warned = 0

IsSingle ==
    /\ S = <<"s0">> /\ A = <<"a0">>
    /\ P = PStay(States, Actions)
    /\ R = [t \in States \X Actions |-> FInt(1)]
    /\ gamma = Half /\ tol = Tol1e6 /\ iter_max = IterMaxDefault

\* 2 * (1 - 0.5^k)
SingleValue(k) ==
    IF k = 0 THEN FZero ELSE Canon[FALSE, BSub[BShl[<<1>>, k], <<1>>], 1 - k]

\* C7: on the single-state MDP with gamma = 0.5 and the defaults, the value
\* after k sweeps is 2 * (1 - 0.5^k), the call converges without a warning and
\* returns policy[s0] = a0 and values[s0] within tol/(1-gamma) = 2e-6 of 2.
C7_SingleState ==
    IsSingle =>
        /\ pc \notin {"start", "raised"} => V["s0"] = SingleValue(sweeps)
        /\ pc = "done" =>
              /\ Converged /\ warned = 0
              /\ policy["s0"] = "a0"
              /\ WithinDec(V["s0"], FInt(2), 2, 6)

C7_Witness == IsSingle /\ pc = "done" /\ sweeps = 21 /\ V["s0"] # FInt(2)

\* C8: running the extraction pass again on the returned V, with the same
\* arguments and iteration order, gives every state the action of the
\* returned policy.
C8_ExtractionIdempotent ==
    pc = "done" => policy = [s \in States |-> BestAction(V, s)]

\* a converged call whose policy is not the same action everywhere
C8_Witness ==
    /\ pc = "done" /\ Converged
    /\ sweeps >= 2
    /\ \E s, t \in States : policy[s] # policy[t]

\* the largest value of any action at s under W
Backup(W, s) ==
    CHOOSE q \in {QValue(W, s, a) : a \in Actions} :
        \A a \in Actions : FLeq[QValue(W, s, a), q]

\* the largest of the non-negative values in X
SupOf(X) == CHOOSE d \in X \cup {FZero} : \A x \in X : FLeq[x, d]

\* C9: sweeps are synchronous: V is zero before the first sweep; within a sweep
\* every state already visited holds the backup of the previous sweep's V,
\* every other state still holds its previous value, and delta is the largest
\* absolute change among the visited states.
C9_SynchronousSweep ==
    /\ (pc \in {"loop", "sweep"} /\ sweeps = 0) => V = [s \in States |-> FZero]
    /\ pc = "sweep" =>
          /\ \A k \in 1..Len(S) :
                 new_V[S[k]] = IF k < idx THEN Backup(V, S[k]) ELSE V[S[k]]
          /\ delta = SupOf({FAbs[XSub[V[S[k]], new_V[S[k]]]] : k \in 1..(idx - 1)})

\* the end of a later sweep over states whose values depend on each other
C9_Witness ==
    /\ pc = "sweep" /\ idx > Len(S) /\ sweeps >= 1
    /\ Len(S) = 2
    /\ P = PHalf(States, Actions)
    /\ V[S[1]] # V[S[2]]
    /\ new_V[S[1]] # V[S[1]]
    /\ new_V[S[2]] # V[S[2]]

\* C10: the call goes from sweeping to extracting to done and never back: the
\* policy is None everywhere while sweeping, every entry is written exactly
\* once, in the extraction pass, and once extraction has begun no sweep runs
\* and V does not change.
C10_Lifecycle ==
    /\ [](pc \in {"loop", "sweep"} =>
            \A s \in States : policy[s] = None /\ writes[s] = 0)
    /\ [](pc = "done" => \A s \in States : writes[s] = 1 /\ policy[s] # None)
    /\ [][/\ Finished => (Finished' /\ V' = V /\ sweeps' = sweeps)
          /\ pc = "done" => pc' = "done"
          /\ \A s \in DOMAIN policy :
                 (policy'[s] # policy[s] \/ writes'[s] # writes[s]) =>
                     (pc = "extract" /\ policy[s] = None /\ writes'[s] = 1)]_vars

C10_Witness ==
    /\ pc = "done" /\ sweeps >= 2
    /\ \A s \in States : writes[s] = 1 /\ policy[s] \in Actions

====
